---------------------------- MODULE Spec2Model ----------------------------
(***************************************************************************)
(* llm-spend: cost attribution for LLM API calls.                          *)
(*                                                                         *)
(* The model covers pricing.py (price resolution, cost, provider),         *)
(* tracker.py (the track decorator and the spending context manager) and   *)
(* store.py (the SQLite call log: log_call, the windowed queries, clear,   *)
(* export).  Several threads use one store file; SQLite's file lock admits *)
(* one write transaction at a time and readers see committed data only.    *)
(*                                                                         *)
(* Units.  Prices are kept in units of 0.025 USD per million tokens (every *)
(* price of the table is a multiple of it), so cost_usd is an integer in   *)
(* units of 0.025e-6 USD and  tokens/1e6 * price  is  tokens * price.      *)
(* The clock counts ticks, TicksPerDay of them to a day.  The measured     *)
(* duration_ms of a call is a wall-clock reading that nothing else depends *)
(* on; the rows of the model do not carry it.                              *)
(***************************************************************************)
EXTENDS Integers, Sequences, FiniteSets, TLC

\* ------------------------------------------------------------------------
\* Bounds of the model
\* ------------------------------------------------------------------------
MaxCalls == 2            \* appends begun over a behaviour
MaxTicks == 1            \* clock advances over a behaviour
TicksPerDay == 2         \* resolution of the clock

\* ------------------------------------------------------------------------
\* Strings.  A name is a TLA+ string; Chars gives its characters, on which
\* the substring and prefix tests of pricing.py are computed.
\* ------------------------------------------------------------------------
NULL == "<None>"         \* Python None / SQL NULL in an Optional[str] place

Chars(n) ==
    CASE n = "claude-3-5-sonnet-20241022" -> <<"c", "l", "a", "u", "d", "e", "-", "3", "-", "5", "-", "s", "o", "n", "n", "e", "t", "-", "2", "0", "2", "4", "1", "0", "2", "2">>
        [] n = "claude-3-5-haiku-20241022" -> <<"c", "l", "a", "u", "d", "e", "-", "3", "-", "5", "-", "h", "a", "i", "k", "u", "-", "2", "0", "2", "4", "1", "0", "2", "2">>
        [] n = "claude-opus-4" -> <<"c", "l", "a", "u", "d", "e", "-", "o", "p", "u", "s", "-", "4">>
        [] n = "claude-sonnet-4" -> <<"c", "l", "a", "u", "d", "e", "-", "s", "o", "n", "n", "e", "t", "-", "4">>
        [] n = "gpt-4o" -> <<"g", "p", "t", "-", "4", "o">>
        [] n = "gpt-4o-mini" -> <<"g", "p", "t", "-", "4", "o", "-", "m", "i", "n", "i">>
        [] n = "gpt-4-turbo" -> <<"g", "p", "t", "-", "4", "-", "t", "u", "r", "b", "o">>
        [] n = "o1" -> <<"o", "1">>
        [] n = "o1-mini" -> <<"o", "1", "-", "m", "i", "n", "i">>
        [] n = "gemini-1.5-pro" -> <<"g", "e", "m", "i", "n", "i", "-", "1", ".", "5", "-", "p", "r", "o">>
        [] n = "gemini-1.5-flash" -> <<"g", "e", "m", "i", "n", "i", "-", "1", ".", "5", "-", "f", "l", "a", "s", "h">>
        [] n = "gemini-2.0-flash" -> <<"g", "e", "m", "i", "n", "i", "-", "2", ".", "0", "-", "f", "l", "a", "s", "h">>
        [] n = "gpt-4o-mini-2024-07-18" -> <<"g", "p", "t", "-", "4", "o", "-", "m", "i", "n", "i", "-", "2", "0", "2", "4", "-", "0", "7", "-", "1", "8">>
        [] n = "my-model" -> <<"m", "y", "-", "m", "o", "d", "e", "l">>
        [] n = "GPT-4o" -> <<"G", "P", "T", "-", "4", "o">>
        [] n = "o3-mini" -> <<"o", "3", "-", "m", "i", "n", "i">>
        [] n = "sonnet" -> <<"s", "o", "n", "n", "e", "t">>
        [] n = "mini" -> <<"m", "i", "n", "i">>
        [] n = "flash" -> <<"f", "l", "a", "s", "h">>
        [] n = "Claude-Opus-4" -> <<"C", "l", "a", "u", "d", "e", "-", "O", "p", "u", "s", "-", "4">>
        [] n = "gpt4" -> <<"g", "p", "t", "4">>
        [] n = "(unknown)" -> <<"(", "u", "n", "k", "n", "o", "w", "n", ")">>
        [] n = "" -> <<>>
        [] n = "unknown-model" -> <<"u", "n", "k", "n", "o", "w", "n", "-", "m", "o", "d", "e", "l">>
        [] n = "o1-preview" -> <<"o", "1", "-", "p", "r", "e", "v", "i", "e", "w">>
        [] n = "GEMINI-1.5-PRO" -> <<"G", "E", "M", "I", "N", "I", "-", "1", ".", "5", "-", "P", "R", "O">>
        [] n = "claude-3-5-sonnet-20241022-v1" -> <<"c", "l", "a", "u", "d", "e", "-", "3", "-", "5", "-", "s", "o", "n", "n", "e", "t", "-", "2", "0", "2", "4", "1", "0", "2", "2", "-", "v", "1">>
        [] n = "some-random-model" -> <<"s", "o", "m", "e", "-", "r", "a", "n", "d", "o", "m", "-", "m", "o", "d", "e", "l">>
        [] n = "4o" -> <<"4", "o">>

\* str.lower() on one character
UpperCase ==
    << "A", "B", "C", "D", "E", "F", "G", "H", "I", "J", "K", "L", "M",
       "N", "O", "P", "Q", "R", "S", "T", "U", "V", "W", "X", "Y", "Z" >>

LowerCase ==
    << "a", "b", "c", "d", "e", "f", "g", "h", "i", "j", "k", "l", "m",
       "n", "o", "p", "q", "r", "s", "t", "u", "v", "w", "x", "y", "z" >>

LowerChar(c) ==
    IF \E i \in 1..26 : UpperCase[i] = c
    THEN LowerCase[CHOOSE i \in 1..26 : UpperCase[i] = c]
    ELSE c

Lower(s) == [i \in 1..Len(s) |-> LowerChar(s[i])]

\* s.startswith(p)
StartsWith(s, p) == Len(p) <= Len(s) /\ SubSeq(s, 1, Len(p)) = p

\* "p in s" on strings: p occurs in s as a contiguous substring
IsSubstring(p, s) ==
    \E i \in 0..(Len(s) - Len(p)) : SubSeq(s, i + 1, i + Len(p)) = p

\* ------------------------------------------------------------------------
\* pricing.py
\* ------------------------------------------------------------------------
\* the keys of PRICING in the order the dict literal lists them
PRICING_KEYS ==
    << "claude-3-5-sonnet-20241022", "claude-3-5-haiku-20241022",
       "claude-opus-4", "claude-sonnet-4",
       "gpt-4o", "gpt-4o-mini", "gpt-4-turbo", "o1", "o1-mini",
       "gemini-1.5-pro", "gemini-1.5-flash", "gemini-2.0-flash" >>

KnownModels == {PRICING_KEYS[i] : i \in 1..Len(PRICING_KEYS)}

Price(i, o) == [input |-> i, output |-> o]

NoPricing == [input |-> -1, output |-> -1]     \* the empty dict {}

PRICING(n) ==
    CASE n = "claude-3-5-sonnet-20241022" -> Price(120, 600)
      [] n = "claude-3-5-haiku-20241022"  -> Price(32, 160)
      [] n = "claude-opus-4"              -> Price(600, 3000)
      [] n = "claude-sonnet-4"            -> Price(120, 600)
      [] n = "gpt-4o"                     -> Price(100, 400)
      [] n = "gpt-4o-mini"                -> Price(6, 24)
      [] n = "gpt-4-turbo"                -> Price(400, 1200)
      [] n = "o1"                         -> Price(600, 2400)
      [] n = "o1-mini"                    -> Price(120, 480)
      [] n = "gemini-1.5-pro"             -> Price(50, 200)
      [] n = "gemini-1.5-flash"           -> Price(3, 12)
      [] n = "gemini-2.0-flash"           -> Price(4, 16)

\* sorted(keys, key=len, reverse=True): a stable sort, so keys of equal
\* length keep the order of the table.  Insertion of k behind every element
\* that is at least as long.
RECURSIVE InsertByLen(_, _)
InsertByLen(k, s) ==
    IF s = << >> THEN <<k>>
    ELSE IF Len(Chars(Head(s))) >= Len(Chars(k))
         THEN <<Head(s)>> \o InsertByLen(k, Tail(s))
         ELSE <<k>> \o s

RECURSIVE SortByLen(_, _)
SortByLen(todo, acc) ==
    IF todo = << >> THEN acc
    ELSE SortByLen(Tail(todo), InsertByLen(Head(todo), acc))

\* the known names in the order of the table, not sorted by length
UnsortedModels == PRICING_KEYS

SORTED_MODELS == SortByLen(PRICING_KEYS, << >>)

\* first element of seq that satisfies the test, or NULL
RECURSIVE FirstContained(_, _)
FirstContained(seq, model) ==
    IF seq = << >> THEN NULL
    ELSE IF IsSubstring(Chars(Head(seq)), Chars(model)) THEN Head(seq)
    ELSE FirstContained(Tail(seq), model)

RECURSIVE FirstContaining(_, _)
FirstContaining(seq, model) ==
    IF seq = << >> THEN NULL
    ELSE IF IsSubstring(Chars(model), Chars(Head(seq))) THEN Head(seq)
    ELSE FirstContaining(Tail(seq), model)

\* ResolvedKey without the exact match and with the loops in the other order
ResolvedKeyContainingFirst(model) ==
    IF FirstContaining(SORTED_MODELS, model) # NULL
    THEN FirstContaining(SORTED_MODELS, model)
    ELSE FirstContained(SORTED_MODELS, model)

\* the key of PRICING that get_model_pricing returns the entry of, or NULL
ResolvedKey(model) ==
    IF model \in KnownModels THEN model
    ELSE IF FirstContained(SORTED_MODELS, model) # NULL
         THEN FirstContained(SORTED_MODELS, model)
    ELSE FirstContaining(SORTED_MODELS, model)

get_model_pricing(model) ==
    IF ResolvedKey(model) = NULL THEN NoPricing
    ELSE PRICING(ResolvedKey(model))

\* calculate_cost with the two prices taken for each other
calculate_costSwapped(model, input_tokens, output_tokens) ==
    LET pricing == get_model_pricing(model)
    IN  IF pricing = NoPricing THEN 0
        ELSE input_tokens * pricing.output + output_tokens * pricing.input

calculate_cost(model, input_tokens, output_tokens) ==
    LET pricing == get_model_pricing(model)
    IN  IF pricing = NoPricing THEN 0
        ELSE input_tokens * pricing.input + output_tokens * pricing.output

\* detect_provider without the lower(): the prefixes tested on the name as
\* it is
detect_providerCaseSensitive(model) ==
    LET name == Chars(model)
    IN  IF StartsWith(name, <<"c", "l", "a", "u", "d", "e">>)
        THEN "anthropic"
        ELSE IF \/ StartsWith(name, <<"g", "p", "t", "-">>)
                \/ StartsWith(name, <<"o", "1">>)
                \/ StartsWith(name, <<"o", "3">>)
        THEN "openai"
        ELSE IF StartsWith(name, <<"g", "e", "m", "i", "n", "i">>)
        THEN "google"
        ELSE "unknown"

detect_provider(model) ==
    LET model_lower == Lower(Chars(model))
    IN  IF StartsWith(model_lower, <<"c", "l", "a", "u", "d", "e">>)
        THEN "anthropic"
        ELSE IF \/ StartsWith(model_lower, <<"g", "p", "t", "-">>)
                \/ StartsWith(model_lower, <<"o", "1">>)
                \/ StartsWith(model_lower, <<"o", "3">>)
        THEN "openai"
        ELSE IF StartsWith(model_lower, <<"g", "e", "m", "i", "n", "i">>)
        THEN "google"
        ELSE "unknown"

\* ------------------------------------------------------------------------
\* tracker.py: response helpers
\*
\* A Python value met in a usage field is one of: no such attribute/key
\* (Missing), None, an int, or a non-numeric string such as "abc".
\* ------------------------------------------------------------------------
Missing == [k |-> "missing", v |-> 0]
NoneV   == [k |-> "none", v |-> 0]
StrV    == [k |-> "str", v |-> 0]
IntV(n) == [k |-> "int", v |-> n]

\* truth value of a Python value, as "or" tests it
Truthy(x) == (x.k = "int" /\ x.v # 0) \/ x.k = "str"

\* a or b
PyOr(a, b) == IF Truthy(a) THEN a ELSE b

\* getattr(usage, f, default) and dict.get(f, default)
Get(u, f, default) == IF u[f] = Missing THEN default ELSE u[f]

Tokens(i, o) == [ok |-> TRUE, inp |-> i, out |-> o, exc |-> "none"]
Raised(e) == [ok |-> FALSE, inp |-> 0, out |-> 0, exc |-> e]

\* int(x): TypeError on None, ValueError on a non-numeric string
IntErr(x) ==
    CASE x.k = "int" -> "none"
      [] x.k = "none" -> "TypeError"
      [] OTHER -> "ValueError"

\* return int(inp), int(out)
IntPair(inp, out) ==
    IF IntErr(inp) # "none" THEN Raised(IntErr(inp))
    ELSE IF IntErr(out) # "none" THEN Raised(IntErr(out))
    ELSE Tokens(inp.v, out.v)

NoFields ==
    [prompt_tokens |-> Missing, completion_tokens |-> Missing,
     input_tokens |-> Missing, output_tokens |-> Missing]

\* A response: shape "none" (None), "obj" (attributes) or "dict" (keys);
\* ukind says what its usage is: "missing", "none", "obj" or "dict";
\* u holds the fields of the usage; model is the model field or NULL.
Response(shape, ukind, u, model) ==
    [shape |-> shape, ukind |-> ukind, u |-> u, model |-> model]

\* the attributes getattr sees on the usage value: a dict has none of them
UsageAttrs(response) == IF response.ukind = "obj" THEN response.u ELSE NoFields

\* lines 43-60: usage reached by attribute
ExtractFromAttrs(usage) ==
    LET prompt == Get(usage, "prompt_tokens", NoneV)
        completion == Get(usage, "completion_tokens", NoneV)
        inp == Get(usage, "input_tokens", NoneV)
        out == Get(usage, "output_tokens", NoneV)
    IN  IF prompt # NoneV /\ completion # NoneV THEN IntPair(prompt, completion)
        ELSE IF inp # NoneV /\ out # NoneV THEN IntPair(inp, out)
        ELSE IntPair(PyOr(inp, Get(usage, "prompt_tokens", IntV(0))),
                     PyOr(out, Get(usage, "completion_tokens", IntV(0))))

\* lines 63-68: usage reached by key
ExtractFromKeys(usage_dict) ==
    IntPair(PyOr(Get(usage_dict, "input_tokens", NoneV),
                 Get(usage_dict, "prompt_tokens", IntV(0))),
            PyOr(Get(usage_dict, "output_tokens", NoneV),
                 Get(usage_dict, "completion_tokens", IntV(0))))

extract_tokens(response) ==
    IF response.shape = "none" THEN Tokens(0, 0)
    ELSE IF response.shape = "obj" /\ response.ukind \in {"obj", "dict"}
         THEN ExtractFromAttrs(UsageAttrs(response))
    ELSE IF response.shape = "dict"
         THEN IF response.ukind = "dict" THEN ExtractFromKeys(response.u)
              ELSE IF response.ukind = "missing" THEN ExtractFromKeys(NoFields)
              ELSE Tokens(0, 0)
    ELSE Tokens(0, 0)

\* _extract_model: the model attribute if truthy, else the "model" key of a
\* dict as it is (an empty name included), else None
extract_model(response) ==
    IF response.shape = "none" THEN NULL
    ELSE IF response.shape = "obj" /\ response.model = "" THEN NULL
    ELSE response.model

\* ------------------------------------------------------------------------
\* Time.  datetime.isoformat() gives a fixed-width text, with the fraction
\* of the second left out when it is zero; SQLite compares the TEXT column
\* byte by byte.  A timestamp is the sequence of the character codes: five
\* digits for the whole days, then "." and the fraction digit unless the
\* fraction is zero, then "+" (the start of the "+00:00" offset).
\* ------------------------------------------------------------------------
Digit(d) == 48 + d

isoformat(t) ==
    LET d == t \div TicksPerDay
        f == t % TicksPerDay
    IN  << Digit((d \div 10000) % 10), Digit((d \div 1000) % 10),
           Digit((d \div 100) % 10), Digit((d \div 10) % 10), Digit(d % 10) >>
        \o (IF f = 0 THEN << >> ELSE <<46, Digit(f)>>) \o <<43>>

\* a < b in the BINARY collation of SQLite (memcmp, then the length)
RECURSIVE TextLess(_, _)
TextLess(a, b) ==
    IF b = << >> THEN FALSE
    ELSE IF a = << >> THEN TRUE
    ELSE IF Head(a) # Head(b) THEN Head(a) < Head(b)
    ELSE TextLess(Tail(a), Tail(b))

\* store._cutoff(days) at clock value t
cutoff(t, days) == isoformat(t - days * TicksPerDay)

\* ------------------------------------------------------------------------
\* Inputs
\* ------------------------------------------------------------------------
\* the threads that write to the store: instrumented calls, log_call, clear
Threads == {1, 2}

\* a reader with a connection of its own, such as the llm-spend command
\* (cli.py) reporting or exporting while the application runs
Cli == 3

Procs == Threads \cup {Cli}

\* the clock advances by a week, or by ten years and a tick
Jumps == {7 * TicksPerDay, 365 * 10 * TicksPerDay + 1}

\* look-back windows passed to the queries, and cut-offs passed to clear
QueryDays == {7}
NoDays == -1                       \* clear(days=None)

OpenAIUsage(p, c) == [NoFields EXCEPT !.prompt_tokens = p, !.completion_tokens = c]
AnthropicUsage(i, o) == [NoFields EXCEPT !.input_tokens = i, !.output_tokens = o]

NoResp == Response("none", "missing", NoFields, NULL)

\* results the wrapped function returns
Responses ==
    { NoResp,
      Response("obj", "obj", OpenAIUsage(IntV(100), IntV(50)), "gpt-4o-mini"),
      Response("dict", "dict", AnthropicUsage(IntV(200), IntV(75)), NULL),
      Response("dict", "missing", NoFields, NULL),       \* {"result": "hello"}
      Response("dict", "dict", AnthropicUsage(IntV(10), IntV(5)), ""),
      Response("obj", "obj", OpenAIUsage(StrV, IntV(1)), "gpt-4o"),
      Response("dict", "dict", OpenAIUsage(NoneV, Missing), NULL) }

\* track(model, label, provider) decorations of my_api_call
TrackArgs ==
    { [model |-> "claude-sonnet-4", label |-> NULL, provider |-> NULL],
      [model |-> "my-model", label |-> "summarize", provider |-> "azure"] }

\* spending(model, label, provider) scopes
SpendArgs ==
    { [model |-> "gpt-4o", label |-> NULL, provider |-> NULL] }

\* token counts a scope stores in its holder
HolderTokens == { [inp |-> 200, out |-> 50] }

\* arguments of direct calls of SpendStore.log_call; metadata is None
\* ("none"), {} ("empty"), a serializable dict ("ok") or a dict that holds
\* a set ("bad")
DirectArgs ==
    { [provider |-> "openai", model |-> "gpt-4o", label |-> NULL,
       file |-> NULL, function |-> NULL,
       input_tokens |-> 100, output_tokens |-> 50, cost_usd |-> 30000,
       metadata |-> "none"],
      [provider |-> "openai", model |-> "gpt-4o", label |-> "(unlabeled)",
       file |-> "(unknown)", function |-> "main",
       input_tokens |-> 10, output_tokens |-> 5, cost_usd |-> 7,
       metadata |-> "ok"],
      [provider |-> "anthropic", model |-> "claude-sonnet-4", label |-> "classify",
       file |-> "job.py", function |-> "run",
       input_tokens |-> 200, output_tokens |-> 50, cost_usd |-> 54000,
       metadata |-> "empty"],
      [provider |-> "anthropic", model |-> "claude-sonnet-4", label |-> "classify",
       file |-> "job.py", function |-> "run",
       input_tokens |-> 200, output_tokens |-> 50, cost_usd |-> 54000,
       metadata |-> "bad"] }

\* ------------------------------------------------------------------------
\* State
\* ------------------------------------------------------------------------
VARIABLES
    calls,      \* the committed rows of table calls
    seq,        \* sqlite_sequence.seq of table calls (AUTOINCREMENT)
    writer,     \* the thread holding the write lock of the file, or 0
    now,        \* the clock, in ticks
    ticks,      \* clock advances so far
    started,    \* appends begun so far
    th,         \* per thread: its position and the locals of its operation
    maxret,     \* history: the largest id a committed INSERT has returned
    call        \* a call of a function of pricing.py or of _extract_tokens

vars == <<calls, seq, writer, now, ticks, started, th, maxret, call>>

NoRow ==
    [id |-> 0, timestamp |-> << >>, at |-> 0, provider |-> NULL, model |-> NULL,
     label |-> NULL, file |-> NULL, function |-> NULL,
     input_tokens |-> 0, output_tokens |-> 0, cost_usd |-> 0,
     metadata_json |-> NULL]

NoTotal == [total_cost |-> 0, total_input |-> 0, total_output |-> 0, total_calls |-> 0]

\* the frame of a thread that runs no operation
IdleFrame ==
    [pc |-> "idle", form |-> "none",
     model |-> NULL, label |-> NULL, provider |-> NULL,   \* decorator arguments
     file |-> NULL, function |-> NULL,                    \* caller of the wrapper
     resp |-> NoResp, raised |-> FALSE,                   \* what the wrapped code did
     inp |-> 0, out |-> 0,                                \* SpendContext
     row |-> NoRow,                                       \* the row of the INSERT
     del |-> {},                                          \* the rows of the DELETE
     days |-> 0, group |-> "none",                        \* query arguments
     outcome |-> "none", exc |-> "none",                  \* what the caller observes
     ret |-> NoResp, retint |-> 0, total |-> NoTotal, rows |-> << >>,
     filed |-> FALSE, header |-> << >>,                   \* the file an export wrote
     wrote |-> 0]                                         \* rows this call committed

\* no call of a pure function under way
NoCall ==
    [fn |-> "none", st |-> "idle", model |-> NULL,
     input_tokens |-> 0, output_tokens |-> 0, response |-> NoResp,
     key |-> NULL, price |-> NoPricing, cost |-> 0, provider |-> NULL,
     tokens |-> Tokens(0, 0)]

\* a fresh store file, no thread at work
InitStore ==
    /\ calls = {}
    /\ seq = 0
    /\ writer = 0
    /\ now = 365 * 10 * TicksPerDay
    /\ ticks = 0
    /\ started = 0
    /\ th = [t \in Procs |-> IdleFrame]
    /\ maxret = 0

Init ==
    /\ InitStore
    /\ call = NoCall

Set(t, f) == th' = [th EXCEPT ![t] = f]

\* Handing an outcome to its caller touches nothing shared, so the model
\* takes it to happen before any other step: while an outcome waits, only
\* Return is enabled.
Quiet == \A t \in Procs : th[t].pc # "done"

\* ------------------------------------------------------------------------
\* store.py: log_call
\* ------------------------------------------------------------------------
MaxRowid(S) == IF S = {} THEN 0 ELSE CHOOSE m \in {r.id : r \in S} : \A r \in S : r.id <= m

\* NextRowid for a plain INTEGER PRIMARY KEY: one more than the largest
\* rowid now in the table
NextRowidNoAutoincrement(table, sequence) == MaxRowid(table) + 1

\* the rowid an INTEGER PRIMARY KEY AUTOINCREMENT column gets: one more than
\* the largest rowid the table ever held
NextRowid(table, sequence) ==
    (IF MaxRowid(table) > sequence THEN MaxRowid(table) ELSE sequence) + 1

\* log_call lines 71-94: the clock is read, the metadata serialized and the
\* INSERT executed, which takes the write lock and gives the row its rowid.
\* What precedes the INSERT is local to the thread, so the model takes it
\* in one step with the INSERT.
NewRow(a, metadata, t) ==
    [id |-> NextRowid(calls, seq), timestamp |-> isoformat(t), at |-> t,
     provider |-> a.provider, model |-> a.model, label |-> a.label,
     file |-> a.file, function |-> a.function,
     input_tokens |-> a.input_tokens, output_tokens |-> a.output_tokens,
     cost_usd |-> a.cost_usd,
     metadata_json |-> IF metadata \in {"none", "empty"} THEN NULL ELSE "{...}"]

\* the caller's view when log_call returns id into the calling code
AfterLog(f) ==
    CASE f.form = "track" ->
            [f EXCEPT !.pc = "done", !.outcome = "return", !.ret = f.resp]
      [] f.form = "spending" ->
            IF f.raised
            THEN [f EXCEPT !.pc = "done", !.outcome = "raise", !.exc = "OpError"]
            ELSE [f EXCEPT !.pc = "done", !.outcome = "return"]
      [] OTHER ->
            [f EXCEPT !.pc = "done", !.outcome = "return", !.retint = f.row.id]

\* an exception e raised inside log_call leaves through every caller
AfterLogRaise(f, e) == [f EXCEPT !.pc = "done", !.outcome = "raise", !.exc = e]

\* Commit for an INSERT OR REPLACE into a table whose timestamp is UNIQUE:
\* the new row replaces the rows made at the same instant
CommitReplacing(t) ==
    /\ Quiet
    /\ th[t].pc = "commit"
    /\ calls' = {r \in calls : r.timestamp # th[t].row.timestamp} \cup {th[t].row}
    /\ seq' = th[t].row.id
    /\ writer' = 0
    /\ maxret' = IF th[t].row.id > maxret THEN th[t].row.id ELSE maxret
    /\ Set(t, AfterLog([th[t] EXCEPT !.wrote = @ + 1]))
    /\ UNCHANGED <<now, ticks, started, call>>

\* conn.commit(); return cursor.lastrowid
Commit(t) ==
    /\ Quiet
    /\ th[t].pc = "commit"
    /\ calls' = calls \cup {th[t].row}
    /\ seq' = th[t].row.id
    /\ writer' = 0
    /\ maxret' = IF th[t].row.id > maxret THEN th[t].row.id ELSE maxret
    /\ Set(t, AfterLog([th[t] EXCEPT !.wrote = @ + 1]))
    /\ UNCHANGED <<now, ticks, started, call>>

\* sqlite3 raises on the write (disk full, I/O error): the with-block rolls
\* the transaction back and the exception leaves log_call
StorageFail(t) ==
    /\ Quiet
    /\ th[t].pc = "commit"
    /\ writer' = 0
    /\ Set(t, AfterLogRaise(th[t], "OperationalError"))
    /\ UNCHANGED <<calls, seq, now, ticks, started, maxret, call>>

\* store.log_call(...) called directly
DirectLog(f, a, t) ==
    IF a.metadata = "bad"
    THEN AfterLogRaise(f, "TypeError")                     \* json.dumps raises
    ELSE [f EXCEPT !.pc = "commit", !.row = NewRow(a, a.metadata, t)]

\* a frame that has executed its INSERT holds the write lock
Locks(t, f) ==
    IF f.pc = "commit" THEN writer = 0 /\ writer' = t ELSE UNCHANGED writer

LogCall(t, a) ==
    /\ Quiet
    /\ th[t].pc = "idle"
    /\ started < MaxCalls
    /\ started' = started + 1
    /\ Set(t, DirectLog([IdleFrame EXCEPT !.form = "direct"], a, now))
    /\ Locks(t, th'[t])
    /\ UNCHANGED <<calls, seq, now, ticks, maxret, call>>

\* ------------------------------------------------------------------------
\* tracker.py: the track decorator
\* ------------------------------------------------------------------------
\* wrapper lines 110-115: caller captured, clock read, func called
TrackCall(t, a) ==
    /\ Quiet
    /\ th[t].pc = "idle"
    /\ started < MaxCalls
    /\ started' = started + 1
    /\ Set(t, [IdleFrame EXCEPT !.pc = "in_func", !.form = "track",
                                !.model = a.model, !.label = a.label,
                                !.provider = a.provider,
                                !.file = "app.py", !.function = "main"])
    /\ UNCHANGED <<calls, seq, writer, now, ticks, maxret, call>>

\* TrackLog with the cost computed from the declared model
TrackLogDeclaredCost(f, result, t) ==
    LET x == extract_tokens(result)
        detected_model == IF extract_model(result) \notin {NULL, ""}
                          THEN extract_model(result) ELSE f.model
        detected_provider == IF f.provider # NULL
                             THEN f.provider ELSE detect_provider(detected_model)
        cost == calculate_cost(f.model, x.inp, x.out)
    IN  IF ~x.ok
        THEN [f EXCEPT !.pc = "done", !.resp = result,
                       !.outcome = "raise", !.exc = x.exc]
        ELSE [f EXCEPT !.pc = "commit", !.resp = result,
                       !.row = NewRow([provider |-> detected_provider,
                                       model |-> detected_model,
                                       label |-> IF f.label # NULL THEN f.label
                                                 ELSE "my_api_call",
                                       file |-> f.file, function |-> f.function,
                                       input_tokens |-> x.inp,
                                       output_tokens |-> x.out,
                                       cost_usd |-> cost],
                                      "none", t)]

\* wrapper lines 118-133, to the INSERT of log_call
TrackLog(f, result, t) ==
    LET x == extract_tokens(result)
        detected_model == IF extract_model(result) \notin {NULL, ""}
                          THEN extract_model(result) ELSE f.model
        detected_provider == IF f.provider # NULL
                             THEN f.provider ELSE detect_provider(detected_model)
        cost == calculate_cost(detected_model, x.inp, x.out)
    IN  IF ~x.ok
        THEN [f EXCEPT !.pc = "done", !.resp = result,
                       !.outcome = "raise", !.exc = x.exc]
        ELSE [f EXCEPT !.pc = "commit", !.resp = result,
                       !.row = NewRow([provider |-> detected_provider,
                                       model |-> detected_model,
                                       label |-> IF f.label # NULL THEN f.label
                                                 ELSE "my_api_call",
                                       file |-> f.file, function |-> f.function,
                                       input_tokens |-> x.inp,
                                       output_tokens |-> x.out,
                                       cost_usd |-> cost],
                                      "none", t)]

\* func returns result
FuncReturn(t, result) ==
    /\ Quiet
    /\ th[t].pc = "in_func"
    /\ Set(t, TrackLog(th[t], result, now))
    /\ Locks(t, th'[t])
    /\ UNCHANGED <<calls, seq, now, ticks, started, maxret, call>>

\* func raises: nothing in the wrapper catches it
TrackRaise(f) ==
    [f EXCEPT !.pc = "done", !.raised = TRUE, !.outcome = "raise", !.exc = "OpError"]

FuncRaise(t) ==
    /\ Quiet
    /\ th[t].pc = "in_func"
    /\ Set(t, TrackRaise(th[t]))
    /\ UNCHANGED <<calls, seq, writer, now, ticks, started, maxret, call>>

\* ------------------------------------------------------------------------
\* tracker.py: the spending context manager
\* ------------------------------------------------------------------------
\* lines 168-177: the holder is made and handed to the with-block
SpendEnter(t, a) ==
    /\ Quiet
    /\ th[t].pc = "idle"
    /\ started < MaxCalls
    /\ started' = started + 1
    /\ Set(t, [IdleFrame EXCEPT !.pc = "in_scope", !.form = "spending",
                                !.model = a.model, !.label = a.label,
                                !.provider = a.provider,
                                !.file = "job.py", !.function = "run"])
    /\ UNCHANGED <<calls, seq, writer, now, ticks, maxret, call>>

\* the with-block stores token counts in the holder
SetTokens(t, k) ==
    /\ Quiet
    /\ th[t].pc = "in_scope"
    /\ <<th[t].inp, th[t].out>> # <<k.inp, k.out>>
    /\ Set(t, [th[t] EXCEPT !.inp = k.inp, !.out = k.out])
    /\ UNCHANGED <<calls, seq, writer, now, ticks, started, maxret, call>>

\* the arguments the finally clause passes to log_call, lines 180-192
SpendArgsOf(f) ==
    [provider |-> IF f.provider # NULL THEN f.provider ELSE detect_provider(f.model),
     model |-> f.model, label |-> f.label,
     file |-> f.file, function |-> f.function,
     input_tokens |-> f.inp, output_tokens |-> f.out,
     cost_usd |-> calculate_cost(f.model, f.inp, f.out)]

\* SpendLog with the logging after the yield instead of in a finally clause
SpendLogNoFinally(f, raised, t) ==
    IF raised
    THEN [f EXCEPT !.pc = "done", !.raised = TRUE,
                   !.outcome = "raise", !.exc = "OpError"]
    ELSE [f EXCEPT !.pc = "commit", !.raised = raised,
                   !.row = NewRow(SpendArgsOf(f), "none", t)]

\* the finally clause, lines 179-193, to the INSERT of log_call
SpendLog(f, raised, t) ==
    [f EXCEPT !.pc = "commit", !.raised = raised,
              !.row = NewRow(SpendArgsOf(f), "none", t)]

\* the with-block ends, normally or by an exception
ScopeExit(t, raised) ==
    /\ Quiet
    /\ th[t].pc = "in_scope"
    /\ Set(t, SpendLog(th[t], raised, now))
    /\ Locks(t, th'[t])
    /\ UNCHANGED <<calls, seq, now, ticks, started, maxret, call>>

\* ------------------------------------------------------------------------
\* store.py: queries
\* ------------------------------------------------------------------------
\* WHERE timestamp >= ?
Window(table, c) == {r \in table : ~TextLess(r.timestamp, c)}

RECURSIVE SumOf(_, _)
SumOf(S, field) ==
    IF S = {} THEN 0
    ELSE LET r == CHOOSE x \in S : TRUE IN r[field] + SumOf(S \ {r}, field)

\* SUM(field) is NULL over no rows; NULL is kept as -1 (no sum is negative)
SqlNull == 0 - 1
SqlSum(S, field) == IF S = {} THEN SqlNull ELSE SumOf(S, field)
Coalesce(x, d) == IF x = SqlNull THEN d ELSE x

\* COALESCE(text, sentinel)
CoalesceText(x, d) == IF x = NULL THEN d ELSE x

\* get_total without the COALESCE around the sums
get_totalNoCoalesce(table, t, days) ==
    LET W == Window(table, cutoff(t, days))
    IN  [total_cost   |-> SqlSum(W, "cost_usd"),
         total_input  |-> SqlSum(W, "input_tokens"),
         total_output |-> SqlSum(W, "output_tokens"),
         total_calls  |-> Cardinality(W)]

get_total(table, t, days) ==
    LET W == Window(table, cutoff(t, days))
    IN  [total_cost   |-> Coalesce(SqlSum(W, "cost_usd"), 0),
         total_input  |-> Coalesce(SqlSum(W, "input_tokens"), 0),
         total_output |-> Coalesce(SqlSum(W, "output_tokens"), 0),
         total_calls  |-> Cardinality(W)]

Groupings == {"file", "function", "label", "model"}

\* the GROUP BY terms name columns of the table, so a group is keyed by the
\* stored values, NULL being a value of its own
GroupKey(r, g) ==
    CASE g = "file"     -> <<r.file>>
      [] g = "function" -> <<r.function, r.file>>
      [] g = "label"    -> <<r.label>>
      [] g = "model"    -> <<r.model, r.provider>>

\* RenderKey without the COALESCE: an absent value stays absent
RenderKeyRaw(k, g) == k

\* the grouping columns as the SELECT list renders them
RenderKey(k, g) ==
    CASE g = "file"     -> <<CoalesceText(k[1], "(unknown)")>>
      [] g = "function" -> <<CoalesceText(k[1], "(unknown)"),
                             CoalesceText(k[2], "(unknown)")>>
      [] g = "label"    -> <<CoalesceText(k[1], "(unlabeled)")>>
      [] g = "model"    -> k

\* the result row of one group
AggRow(W, g, k) ==
    LET G == {r \in W : GroupKey(r, g) = k}
    IN  [key |-> RenderKey(k, g),
         calls |-> Cardinality(G),
         input_tokens |-> SqlSum(G, "input_tokens"),
         output_tokens |-> SqlSum(G, "output_tokens"),
         cost_usd |-> SqlSum(G, "cost_usd")]

Perms(S) ==
    {s \in [1..Cardinality(S) -> S] : \A i, j \in 1..Cardinality(S) : i # j => s[i] # s[j]}

\* get_by with ORDER BY cost_usd ASC
get_byAscending(table, t, days, g) ==
    LET W == Window(table, cutoff(t, days))
        K == {GroupKey(r, g) : r \in W}
        ordered == {ks \in Perms(K) :
                      \A i, j \in 1..Len(ks) :
                         i < j => AggRow(W, g, ks[i]).cost_usd <= AggRow(W, g, ks[j]).cost_usd}
    IN  {[i \in 1..Len(ks) |-> AggRow(W, g, ks[i])] : ks \in ordered}

\* get_by with the rows of an absent file, function or label left out
\* (WHERE ... IS NOT NULL)
get_byKnownOnly(table, t, days, g) ==
    LET W == Window(table, cutoff(t, days))
        K == {k \in {GroupKey(r, g) : r \in W} : \A i \in 1..Len(k) : k[i] # NULL}
        ordered == {ks \in Perms(K) :
                      \A i, j \in 1..Len(ks) :
                         i < j => AggRow(W, g, ks[i]).cost_usd >= AggRow(W, g, ks[j]).cost_usd}
    IN  {[i \in 1..Len(ks) |-> AggRow(W, g, ks[i])] : ks \in ordered}

\* get_by_file / get_by_function / get_by_label / get_by_model: the row
\* sequences ORDER BY cost_usd DESC admits (the order of ties is not fixed)
get_by(table, t, days, g) ==
    LET W == Window(table, cutoff(t, days))
        K == {GroupKey(r, g) : r \in W}
        ordered == {ks \in Perms(K) :
                      \A i, j \in 1..Len(ks) :
                         i < j => AggRow(W, g, ks[i]).cost_usd >= AggRow(W, g, ks[j]).cost_usd}
    IN  {[i \in 1..Len(ks) |-> AggRow(W, g, ks[i])] : ks \in ordered}

\* get_all_calls: SELECT * ... ORDER BY timestamp DESC
get_all_calls(table, t, days) ==
    LET W == Window(table, cutoff(t, days))
    IN  {rs \in Perms(W) :
            \A i, j \in 1..Len(rs) : i < j => ~TextLess(rs[i].timestamp, rs[j].timestamp)}

\* the rows export_csv / export_json may write
ExportRows(table, t) == get_all_calls(table, t, 365 * 10)

GetTotal(t, days) ==
    /\ Quiet
    /\ th[t].pc = "idle"
    /\ Set(t, [IdleFrame EXCEPT !.pc = "done", !.form = "total", !.days = days,
                                !.outcome = "return",
                                !.total = get_total(calls, now, days)])
    /\ UNCHANGED <<calls, seq, writer, now, ticks, started, maxret, call>>

GetBy(t, g, days) ==
    /\ Quiet
    /\ th[t].pc = "idle"
    /\ \E rows \in get_by(calls, now, days, g) :
         Set(t, [IdleFrame EXCEPT !.pc = "done", !.form = "aggregate",
                                  !.days = days, !.group = g,
                                    !.outcome = "return", !.rows = rows])
    /\ UNCHANGED <<calls, seq, writer, now, ticks, started, maxret, call>>

\* the columns of table calls, in the order SELECT * returns them
Columns ==
    << "id", "timestamp", "provider", "model", "label", "file", "function",
       "input_tokens", "output_tokens", "cost_usd", "duration_ms", "metadata_json" >>

\* export_csv returns 0 without writing a file when there are no rows, and
\* else writes the keys of the first row as the header and then the rows;
\* export_json dumps the list of the rows
Export(t, fmt) ==
    /\ Quiet
    /\ th[t].pc = "idle"
    /\ \E rows \in ExportRows(calls, now) :
         Set(t, [IdleFrame EXCEPT !.pc = "done", !.form = "export", !.group = fmt,
                                  !.outcome = "return", !.rows = rows,
                                  !.filed = (fmt = "json" \/ rows # << >>),
                                  !.header = IF fmt = "csv" /\ rows # << >>
                                             THEN Columns ELSE << >>,
                                  !.retint = Len(rows)])
    /\ UNCHANGED <<calls, seq, writer, now, ticks, started, maxret, call>>

\* ------------------------------------------------------------------------
\* store.py: clear
\* ------------------------------------------------------------------------
\* ClearSet with days=None taken as a cutoff of zero days
ClearSetDefaultZero(table, t, days) ==
    {r \in table : TextLess(r.timestamp, cutoff(t, IF days = NoDays THEN 0 ELSE days))}

\* ClearSet with "timestamp <= ?" in the DELETE
ClearSetInclusive(table, t, days) ==
    IF days = NoDays THEN table
    ELSE {r \in table : ~TextLess(cutoff(t, days), r.timestamp)}

\* the rows the DELETE statement of clear(days) removes
ClearSet(table, t, days) ==
    IF days = NoDays THEN table
    ELSE {r \in table : TextLess(r.timestamp, cutoff(t, days))}

\* conn.execute(DELETE ...): takes the write lock
Clear(t, days) ==
    /\ Quiet
    /\ th[t].pc = "idle"
    /\ writer = 0
    /\ writer' = t
    /\ Set(t, [IdleFrame EXCEPT !.pc = "commit_clear", !.form = "clear",
                                !.days = days,
                                !.del = ClearSet(calls, now, days)])
    /\ UNCHANGED <<calls, seq, now, ticks, started, maxret, call>>

\* CommitClear deleting the rows one at a time, each in a transaction of
\* its own
CommitClearRowByRow(t) ==
    /\ Quiet
    /\ th[t].pc = "commit_clear"
    /\ IF th[t].del \cap calls = {}
       THEN /\ calls' = calls
            /\ writer' = 0
            /\ Set(t, [th[t] EXCEPT !.pc = "done", !.outcome = "return",
                                   !.retint = Cardinality(th[t].del)])
       ELSE /\ \E r \in th[t].del \cap calls : calls' = calls \ {r}
            /\ UNCHANGED <<writer, th>>
    /\ UNCHANGED <<seq, now, ticks, started, maxret, call>>

\* conn.commit(); return cursor.rowcount
CommitClear(t) ==
    /\ Quiet
    /\ th[t].pc = "commit_clear"
    /\ calls' = calls \ th[t].del
    /\ writer' = 0
    /\ Set(t, [th[t] EXCEPT !.pc = "done", !.outcome = "return",
                           !.retint = Cardinality(th[t].del)])
    /\ UNCHANGED <<seq, now, ticks, started, maxret, call>>

\* ------------------------------------------------------------------------
\* Environment
\* ------------------------------------------------------------------------
\* the caller takes the outcome; the thread is free for its next operation
Return(t) ==
    /\ th[t].pc = "done"
    /\ Set(t, IdleFrame)
    /\ UNCHANGED <<calls, seq, writer, now, ticks, started, maxret, call>>

Tick(j) ==
    /\ Quiet
    /\ ticks < MaxTicks
    /\ ticks' = ticks + 1
    /\ now' = now + j
    /\ UNCHANGED <<calls, seq, writer, started, th, maxret, call>>

Next ==
    \/ \E t \in Threads, a \in TrackArgs : TrackCall(t, a)
    \/ \E t \in Threads, r \in Responses : FuncReturn(t, r)
    \/ \E t \in Threads : FuncRaise(t)
    \/ \E t \in Threads, a \in SpendArgs : SpendEnter(t, a)
    \/ \E t \in Threads, k \in HolderTokens : SetTokens(t, k)
    \/ \E t \in Threads, raised \in BOOLEAN : ScopeExit(t, raised)
    \/ \E t \in Threads, a \in DirectArgs : LogCall(t, a)
    \/ \E t \in Threads : Commit(t)
    \/ \E t \in Threads : StorageFail(t)
    \/ \E d \in QueryDays : GetTotal(Cli, d)
    \/ \E g \in Groupings, d \in QueryDays : GetBy(Cli, g, d)
    \/ \E fmt \in {"csv", "json"} : Export(Cli, fmt)
    \/ \E t \in Threads, d \in {NoDays, 7} : Clear(t, d)
    \/ \E t \in Threads : CommitClear(t)
    \/ \E t \in Procs : Return(t)
    \/ \E j \in Jumps : Tick(j)

Spec == Init /\ [][Next]_vars

\* ------------------------------------------------------------------------
\* The functions of pricing.py and _extract_tokens, called on their own:
\* the call is drawn at the start, and one step returns from it.
\* ------------------------------------------------------------------------
\* model names: the keys of the table, the names of the tests, and names
\* that contain a key, are contained in one, differ in case, or match none
ModelNames ==
    KnownModels \cup
    { "gpt-4o-mini-2024-07-18", "claude-3-5-sonnet-20241022-v1", "o1-preview",
      "sonnet", "mini", "flash", "4o", "",
      "GPT-4o", "Claude-Opus-4", "GEMINI-1.5-PRO", "o3-mini", "gpt4",
      "my-model", "unknown-model", "some-random-model" }

\* token counts: those of the tests; a million of each on gpt-4o
TokenPairs(model) ==
    { <<0, 0>>, <<100000, 100000>>, <<500000, 250000>> } \cup
    (IF model = "gpt-4o" THEN { <<1000000, 1000000>> } ELSE {})

\* the usage of a response: every field is missing, None, 0 or a count
UsageFields ==
    [prompt_tokens : {Missing, NoneV, IntV(0), IntV(10)},
     completion_tokens : {Missing, NoneV, IntV(0), IntV(5)},
     input_tokens : {Missing, NoneV, IntV(0), IntV(20)},
     output_tokens : {Missing, NoneV, IntV(0), IntV(7)}]

\* responses: None, an object or a dict without usage or with usage None,
\* and an object or a dict with a usage of either kind
ExtractResponses ==
    { NoResp }
    \cup { Response(shape, ukind, NoFields, NULL) :
             shape \in {"obj", "dict"}, ukind \in {"missing", "none"} }
    \cup { Response(shape, ukind, u, NULL) :
             shape \in {"obj", "dict"}, ukind \in {"obj", "dict"}, u \in UsageFields }

Called(fn) == [NoCall EXCEPT !.fn = fn, !.st = "called"]

PureCalls ==
    { [Called("get_model_pricing") EXCEPT !.model = m] : m \in ModelNames }
    \cup { [Called("detect_provider") EXCEPT !.model = m] : m \in ModelNames }
    \cup UNION { { [Called("calculate_cost") EXCEPT !.model = m,
                       !.input_tokens = k[1], !.output_tokens = k[2]] :
                    k \in TokenPairs(m) } : m \in ModelNames }
    \cup { [Called("extract_tokens") EXCEPT !.response = r] : r \in ExtractResponses }

InitPure ==
    /\ InitStore
    /\ call \in PureCalls

StoreUnchanged == UNCHANGED <<calls, seq, writer, now, ticks, started, th, maxret>>

GetModelPricing ==
    /\ call.fn = "get_model_pricing" /\ call.st = "called"
    /\ call' = [call EXCEPT !.st = "returned",
                            !.key = ResolvedKey(call.model),
                            !.price = get_model_pricing(call.model)]
    /\ StoreUnchanged

CalculateCost ==
    /\ call.fn = "calculate_cost" /\ call.st = "called"
    /\ call' = [call EXCEPT !.st = "returned",
                            !.cost = calculate_cost(call.model, call.input_tokens,
                                                    call.output_tokens)]
    /\ StoreUnchanged

DetectProvider ==
    /\ call.fn = "detect_provider" /\ call.st = "called"
    /\ call' = [call EXCEPT !.st = "returned",
                            !.provider = detect_provider(call.model)]
    /\ StoreUnchanged

ExtractTokens ==
    /\ call.fn = "extract_tokens" /\ call.st = "called"
    /\ call' = [call EXCEPT !.st = IF extract_tokens(call.response).ok
                                   THEN "returned" ELSE "raised",
                            !.tokens = extract_tokens(call.response)]
    /\ StoreUnchanged

NextPure ==
    \/ GetModelPricing
    \/ CalculateCost
    \/ DetectProvider
    \/ ExtractTokens

PureSpec == InitPure /\ [][NextPure]_vars

\* ------------------------------------------------------------------------
\* Properties
\* ------------------------------------------------------------------------
Done(t) == th[t].pc = "done"

\* the model a wrapped call is charged to: the model of the result, else the
\* declared one
EffectiveModel(f) ==
    IF f.resp.shape # "none" /\ f.resp.model \notin {NULL, ""}
    THEN f.resp.model ELSE f.model

\* the records at or after now minus days, by the instants they were made at
InWindow(days) == {r \in calls : r.at >= now - days * TicksPerDay}

\* C1: a spending scope that has ended, normally or by an escaping exception,
\* and whose write the store accepted has appended exactly one record, which
\* carries the token counts the holder held at exit (0/0 if never set); the
\* caller then observes the scope's own exception if it raised one, and a
\* normal end otherwise.
C1_ScopedLogsExactlyOnce ==
    \A t \in Threads :
        (Done(t) /\ th[t].form = "spending" /\ th[t].exc # "OperationalError") =>
            /\ th[t].wrote = 1
            /\ th[t].row \in calls
            /\ th[t].row.input_tokens = th[t].inp
            /\ th[t].row.output_tokens = th[t].out
            /\ th[t].raised => (th[t].outcome = "raise" /\ th[t].exc = "OpError")
            /\ ~th[t].raised => th[t].outcome = "return"

\* a scope that set 200/50 and then raised has its record, and its exception
C1_Witness ==
    \E t \in Threads :
        /\ Done(t) /\ th[t].form = "spending" /\ th[t].raised
        /\ th[t].exc = "OpError" /\ th[t].wrote = 1
        /\ th[t].row.input_tokens = 200 /\ th[t].row.output_tokens = 50

\* C2: when the wrapped operation of the track wrapper fails, the wrapper
\* has appended one record with zero input tokens, zero output tokens and
\* zero cost by the time the original failure reaches the caller.
C2_TrackLogsOnFailure ==
    \A t \in Threads :
        (Done(t) /\ th[t].form = "track" /\ th[t].raised) =>
            /\ th[t].wrote = 1
            /\ th[t].row.input_tokens = 0
            /\ th[t].row.output_tokens = 0
            /\ th[t].row.cost_usd = 0
            /\ th[t].outcome = "raise" /\ th[t].exc = "OpError"

\* C3: a failing store write never replaces the outcome of the wrapped code:
\* a scope that raised E still shows E to its caller, and a wrapped function
\* that returned a result whose tokens could be extracted still returns it.
C3_StoreFailureKeepsOutcome ==
    \A t \in Threads :
        Done(t) =>
            /\ (th[t].form = "spending" /\ th[t].raised) =>
                   (th[t].outcome = "raise" /\ th[t].exc = "OpError")
            /\ (th[t].form = "track" /\ ~th[t].raised /\ extract_tokens(th[t].resp).ok) =>
                   (th[t].outcome = "return" /\ th[t].ret = th[t].resp)

\* C4: a call of the track wrapper whose wrapped function returned has,
\* unless the store write failed, appended exactly one record, with the
\* tokens extracted from the result and the cost of those tokens at the price
\* of the effective model, and has returned the very result of the wrapped
\* function.
C4_TrackLogsAndReturns ==
    \A t \in Threads :
        (Done(t) /\ th[t].form = "track" /\ ~th[t].raised
                 /\ th[t].exc # "OperationalError") =>
            /\ th[t].outcome = "return"
            /\ th[t].ret = th[t].resp
            /\ th[t].wrote = 1
            /\ th[t].row \in calls
            /\ th[t].row.input_tokens = extract_tokens(th[t].resp).inp
            /\ th[t].row.output_tokens = extract_tokens(th[t].resp).out
            /\ th[t].row.cost_usd =
                  calculate_cost(EffectiveModel(th[t]), th[t].row.input_tokens,
                                 th[t].row.output_tokens)

\* C5: whatever the wrapped function returns, a malformed usage included,
\* extracting the tokens does not fail: unless the store write fails, one
\* record is written and the caller receives the result unchanged.
C5_ExtractionNeverFails ==
    \A t \in Threads :
        (Done(t) /\ th[t].form = "track" /\ ~th[t].raised
                 /\ th[t].exc # "OperationalError") =>
            /\ extract_tokens(th[t].resp).ok
            /\ th[t].wrote = 1
            /\ th[t].outcome = "return" /\ th[t].ret = th[t].resp

\* C6: the id of a row whose INSERT is about to commit and return exceeds
\* every id an earlier append has returned, whatever appends and clears came
\* before and however the threads interleave.
C6_IdsStrictlyIncrease ==
    \A t \in Threads : th[t].pc = "commit" => th[t].row.id > maxret

\* an append into a table that clear has emptied after ids were returned
C6_Witness ==
    \E t \in Threads :
        /\ th[t].pc = "commit" /\ calls = {} /\ maxret >= 1
        /\ th[t].row.id = maxret + 1

\* C7: a direct log_call never loses its record over its metadata: unless
\* the store write fails, the record is persisted and an id is returned.
C7_MetadataNeverLosesRecord ==
    \A t \in Threads :
        (Done(t) /\ th[t].form = "direct" /\ th[t].exc # "OperationalError") =>
            /\ th[t].outcome = "return"
            /\ th[t].wrote = 1
            /\ th[t].row \in calls

\* C8: an export writes every record of the store, whatever its age, and
\* returns their number.
C8_ExportIsUnfiltered ==
    (Done(Cli) /\ th[Cli].form = "export") =>
        /\ th[Cli].retint = Cardinality(calls)
        /\ {th[Cli].rows[i] : i \in 1..Len(th[Cli].rows)} = calls

\* C9: get_total(days) reports the number of the records made at or after now
\* minus days and the sums of their cost and tokens; all four are zero when
\* there is no such record.
C9_TotalOverWindow ==
    (Done(Cli) /\ th[Cli].form = "total") =>
        LET W == InWindow(th[Cli].days)
        IN  /\ th[Cli].total.total_calls = Cardinality(W)
            /\ th[Cli].total.total_cost = SumOf(W, "cost_usd")
            /\ th[Cli].total.total_input = SumOf(W, "input_tokens")
            /\ th[Cli].total.total_output = SumOf(W, "output_tokens")
            /\ W = {} => th[Cli].total = NoTotal

\* of two records one lies in the window, and the total counts that one
C9_Witness ==
    /\ Done(Cli) /\ th[Cli].form = "total"
    /\ Cardinality(calls) = 2
    /\ th[Cli].total.total_calls = 1
    /\ th[Cli].total.total_cost > 0

\* the grouping key of a record, as the claim names it
C10_Key(r, g) ==
    CASE g = "file"     -> <<r.file>>
      [] g = "function" -> <<r.function, r.file>>
      [] g = "label"    -> <<r.label>>
      [] g = "model"    -> <<r.model, r.provider>>

\* C10: an aggregate has one row for each distinct grouping key among the
\* records of the window (an absent value being a key of its own); the row
\* of a key shows the key's present values and holds the count and the sums
\* of input tokens, output tokens and cost of exactly the records with that
\* key; the rows come by summed cost, descending.
C10_AggregateRows ==
    (Done(Cli) /\ th[Cli].form = "aggregate") =>
        LET g == th[Cli].group
            rows == th[Cli].rows
            W == InWindow(th[Cli].days)
            K == {C10_Key(r, g) : r \in W}
            Of(k) == {r \in W : C10_Key(r, g) = k}
        IN  /\ Len(rows) = Cardinality(K)
            /\ \E ks \in Perms(K) :
                 \A i \in 1..Len(rows) :
                    /\ \A c \in 1..Len(ks[i]) :
                          ks[i][c] # NULL => rows[i].key[c] = ks[i][c]
                    /\ rows[i].calls = Cardinality(Of(ks[i]))
                    /\ rows[i].input_tokens = SumOf(Of(ks[i]), "input_tokens")
                    /\ rows[i].output_tokens = SumOf(Of(ks[i]), "output_tokens")
                    /\ rows[i].cost_usd = SumOf(Of(ks[i]), "cost_usd")
            /\ \A i, j \in 1..Len(rows) : i < j => rows[i].cost_usd >= rows[j].cost_usd

\* two functions in the window, the dearer one first
C10_Witness ==
    /\ Done(Cli) /\ th[Cli].form = "aggregate" /\ th[Cli].group = "function"
    /\ Len(th[Cli].rows) = 2
    /\ th[Cli].rows[1].cost_usd > th[Cli].rows[2].cost_usd

\* the sentinel the claim names for an absent value of a grouping column
C11_Shown(x, g) ==
    IF x # NULL THEN x ELSE IF g = "label" THEN "(unlabeled)" ELSE "(unknown)"

\* C11: in an aggregate by file, function or label no record of the window
\* is left out: the calls of the rows add up to the records of the window,
\* and a record with an absent file, function or label is counted in a row
\* that shows "(unknown)" (file, function) or "(unlabeled)" (label) in the
\* place of the absent value.
C11_AbsentUnderSentinel ==
    (Done(Cli) /\ th[Cli].form = "aggregate"
               /\ th[Cli].group \in {"file", "function", "label"}) =>
        LET g == th[Cli].group
            rows == th[Cli].rows
            W == InWindow(th[Cli].days)
            Same(r) == {x \in W : C10_Key(x, g) = C10_Key(r, g)}
        IN  /\ SumOf({[i |-> i, calls |-> rows[i].calls] : i \in 1..Len(rows)},
                     "calls") = Cardinality(W)
            /\ \A r \in W :
                 \E i \in 1..Len(rows) :
                    /\ \A c \in 1..Len(C10_Key(r, g)) :
                          rows[i].key[c] = C11_Shown(C10_Key(r, g)[c], g)
                    /\ rows[i].calls = Cardinality(Same(r))

\* a record without a label in the window, and its row "(unlabeled)"
C11_Witness ==
    /\ Done(Cli) /\ th[Cli].form = "aggregate" /\ th[Cli].group = "label"
    /\ \E r \in InWindow(th[Cli].days) : r.label = NULL
    /\ \E i \in 1..Len(th[Cli].rows) :
          th[Cli].rows[i].key = <<"(unlabeled)">> /\ th[Cli].rows[i].calls >= 1

\* C12: clear() with no cutoff, when it commits, leaves the table empty and
\* returns the number of records the table held; a total taken next, for
\* any window, counts zero calls.
C12_ClearAllEmpties ==
    [][\A t \in Threads :
          (th[t].pc = "commit_clear" /\ th[t].days = NoDays /\ th'[t].pc = "done") =>
              /\ calls' = {}
              /\ th'[t].outcome = "return"
              /\ th'[t].retint = Cardinality(calls)
              /\ \A d \in QueryDays \cup {0, 365 * 10} :
                    get_total(calls', now', d).total_calls = 0]_vars

\* clear() has removed two records
C12_Witness ==
    \E t \in Threads :
        /\ Done(t) /\ th[t].form = "clear" /\ th[t].days = NoDays
        /\ th[t].retint = 2 /\ calls = {}

\* C13: clear(d) marks for deletion exactly the records made strictly
\* before now minus d days; when it commits, exactly those are gone, every
\* other record is still there as it was, and their number is returned.
C13_ClearOlderOnly ==
    [][\A t \in Threads :
          /\ (th[t].pc = "idle" /\ th'[t].pc = "commit_clear" /\ th'[t].days # NoDays) =>
                 th'[t].del = {r \in calls : r.at < now - th'[t].days * TicksPerDay}
          /\ (th[t].pc = "commit_clear" /\ th[t].days # NoDays /\ th'[t].pc = "done") =>
                 /\ th[t].del \subseteq calls
                 /\ calls' = calls \ th[t].del
                 /\ th'[t].outcome = "return"
                 /\ th'[t].retint = Cardinality(th[t].del)]_vars

\* clear(7) has removed the one record older than a week and kept the other
C13_Witness ==
    \E t \in Threads :
        /\ Done(t) /\ th[t].form = "clear" /\ th[t].days = 7
        /\ th[t].retint = 1 /\ Cardinality(calls) = 1
        /\ \A r \in calls : r.at >= now - 7 * TicksPerDay

\* the tables a reader may see: the table as it is before the write now in
\* flight, or as it is after it
C14_Snapshots ==
    IF \E t \in Threads : th[t].pc = "commit_clear"
    THEN LET t == CHOOSE x \in Threads : th[x].pc = "commit_clear"
         IN  {calls \cup th[t].del, calls \ th[t].del}
    ELSE IF \E t \in Threads : th[t].pc = "commit"
    THEN LET t == CHOOSE x \in Threads : th[x].pc = "commit"
         IN  {calls \ {th[t].row}, calls \cup {th[t].row}}
    ELSE {calls}

\* C14: what a total, an aggregate or an export returns is what it returns
\* on the table entirely before or entirely after the append or clear in
\* flight: never on a table with part of the rows of a clear gone.
C14_ReadsSeeSnapshot ==
    (Done(Cli) /\ th[Cli].form \in {"total", "aggregate", "export"}) =>
        \E S \in C14_Snapshots :
            /\ th[Cli].form = "total" =>
                  th[Cli].total = get_total(S, now, th[Cli].days)
            /\ th[Cli].form = "aggregate" =>
                  th[Cli].rows \in get_by(S, now, th[Cli].days, th[Cli].group)
            /\ th[Cli].form = "export" =>
                  th[Cli].rows \in ExportRows(S, now)

\* a total taken while a clear of two records waits to commit counts both
C14_Witness ==
    /\ Done(Cli) /\ th[Cli].form = "total"
    /\ \E t \in Threads :
          /\ th[t].pc = "commit_clear" /\ Cardinality(th[t].del) = 2
          /\ th[Cli].total.total_calls = 2

\* C15: an export of an empty store returns 0 without an error; an export of
\* a store of N records returns N in both formats, and the CSV file has the
\* header of all the columns and then N data rows.
C15_ExportCountsAndHeader ==
    (Done(Cli) /\ th[Cli].form = "export") =>
        /\ th[Cli].outcome = "return"
        /\ th[Cli].retint = Cardinality(calls)
        /\ (th[Cli].group = "csv" /\ calls # {}) =>
               /\ th[Cli].filed
               /\ th[Cli].header = Columns
               /\ Len(th[Cli].rows) = Cardinality(calls)

\* the longest names of a set of known names
C16_Longest(S) == {k \in S : \A j \in S : Len(Chars(j)) <= Len(Chars(k))}

\* C16: get_model_pricing(name) returns the entry of name when name is a key
\* of the table; else the entry of a longest key that is a substring of
\* name; else the entry of a longest key that name is a substring of; else
\* the empty dict.  "gpt-4o-mini-2024-07-18" gets the entry of "gpt-4o-mini".
C16_ResolvePriority ==
    (call.fn = "get_model_pricing" /\ call.st = "returned") =>
        LET m == call.model
            within == {k \in KnownModels : IsSubstring(Chars(k), Chars(m))}
            around == {k \in KnownModels : IsSubstring(Chars(m), Chars(k))}
        IN  /\ IF m \in KnownModels THEN call.price = PRICING(m)
               ELSE IF within # {}
                    THEN \E k \in C16_Longest(within) : call.price = PRICING(k)
               ELSE IF around # {}
                    THEN \E k \in C16_Longest(around) : call.price = PRICING(k)
               ELSE call.price = NoPricing
            /\ m = "gpt-4o-mini-2024-07-18" => call.price = Price(6, 24)

\* the dated name is resolved to gpt-4o-mini, which gpt-4o is a prefix of
C16_Witness ==
    /\ call.fn = "get_model_pricing" /\ call.st = "returned"
    /\ call.model = "gpt-4o-mini-2024-07-18"
    /\ call.key = "gpt-4o-mini" /\ call.price = Price(6, 24)

\* C17: get_model_pricing of a key of the table returns the entry of that
\* key, not that of a key it is part of or that is part of it.
C17_KnownResolveToSelf ==
    (call.fn = "get_model_pricing" /\ call.st = "returned"
                                  /\ call.model \in KnownModels) =>
        /\ call.key = call.model
        /\ call.price = PRICING(call.model)

\* gpt-4o, a part of gpt-4o-mini, gets 2.50 and 10.00 USD per million
C17_Witness ==
    /\ call.fn = "get_model_pricing" /\ call.st = "returned"
    /\ call.model = "gpt-4o" /\ call.key = "gpt-4o"
    /\ call.price = Price(100, 400)

\* an amount of c hundredths of a USD in the unit of cost_usd, 0.025e-6 USD
C18_Cents(c) == c * 400000

\* C18: calculate_cost returns input tokens times the input price plus
\* output tokens times the output price of the entry the model resolves to
\* (per million tokens): 0 for a model without a price, 0 for no tokens,
\* 12.50 USD for gpt-4o with a million of each, 5.25 USD for claude-sonnet-4
\* with 500,000 and 250,000, 0.075 USD for gpt-4o-mini with 100,000 of each.
C18_CostOfTokens ==
    (call.fn = "calculate_cost" /\ call.st = "returned") =>
        LET price == get_model_pricing(call.model)
            i == call.input_tokens
            o == call.output_tokens
        IN  /\ price = NoPricing => call.cost = 0
            /\ price # NoPricing => call.cost = i * price.input + o * price.output
            /\ (i = 0 /\ o = 0) => call.cost = 0
            /\ call.model \in {"unknown-model", "some-random-model"} => call.cost = 0
            /\ (call.model = "gpt-4o" /\ i = 1000000 /\ o = 1000000) =>
                   call.cost = C18_Cents(1250)
            /\ (call.model = "claude-sonnet-4" /\ i = 500000 /\ o = 250000) =>
                   call.cost = C18_Cents(525)
            /\ (call.model = "gpt-4o-mini" /\ i = 100000 /\ o = 100000) =>
                   2 * call.cost = C18_Cents(15)

\* 500,000 and 250,000 tokens on claude-sonnet-4 cost 5.25 USD
C18_Witness ==
    /\ call.fn = "calculate_cost" /\ call.st = "returned"
    /\ call.model = "claude-sonnet-4"
    /\ call.input_tokens = 500000 /\ call.output_tokens = 250000
    /\ call.cost = C18_Cents(525)

\* the upper-case form of a lower-case letter; other characters have none
C19_Upper(c) ==
    IF \E i \in 1..26 : LowerCase[i] = c
    THEN UpperCase[CHOOSE i \in 1..26 : LowerCase[i] = c]
    ELSE c

\* name starts with the lower-case prefix p, in whatever case
C19_Starts(name, p) ==
    /\ Len(Chars(name)) >= Len(p)
    /\ \A i \in 1..Len(p) : Chars(name)[i] \in {p[i], C19_Upper(p[i])}

\* C19: detect_provider returns for every name, priced or not: anthropic if
\* the name starts with "claude", openai if it starts with "gpt-", "o1" or
\* "o3", google if it starts with "gemini", each in whatever case, and
\* unknown for every other name.
C19_ProviderByPrefix ==
    (call.fn = "detect_provider") =>
        /\ call.st \in {"called", "returned"}
        /\ call.st = "returned" =>
              call.provider =
                 IF C19_Starts(call.model, <<"c", "l", "a", "u", "d", "e">>)
                 THEN "anthropic"
                 ELSE IF \/ C19_Starts(call.model, <<"g", "p", "t", "-">>)
                         \/ C19_Starts(call.model, <<"o", "1">>)
                         \/ C19_Starts(call.model, <<"o", "3">>)
                 THEN "openai"
                 ELSE IF C19_Starts(call.model, <<"g", "e", "m", "i", "n", "i">>)
                 THEN "google"
                 ELSE "unknown"

\* "GPT-4o", which has no price, is a model of openai
C19_Witness ==
    /\ call.fn = "detect_provider" /\ call.st = "returned"
    /\ call.model = "GPT-4o" /\ call.provider = "openai"
    /\ get_model_pricing(call.model) = NoPricing

\* the response of the other shape with the same usage fields
C20_Twin(r) ==
    IF r.shape = "obj" THEN [r EXCEPT !.shape = "dict", !.ukind = "dict"]
    ELSE [r EXCEPT !.shape = "obj", !.ukind = "obj"]

\* C20: for an object with a usage object and for a dict with a usage dict
\* whose fields are missing or hold counts, _extract_tokens returns
\* (prompt_tokens, completion_tokens) if both are there, else (input_tokens,
\* output_tokens) if both are there, and in every case what it returns for
\* the response of the other shape with the same fields.
C20_SameCheckBothShapes ==
    (/\ call.fn = "extract_tokens" /\ call.st # "called"
     /\ <<call.response.shape, call.response.ukind>> \in
            {<<"obj", "obj">>, <<"dict", "dict">>}
     /\ \A f \in DOMAIN call.response.u : call.response.u[f] # NoneV) =>
        LET u == call.response.u
            openai == u.prompt_tokens # Missing /\ u.completion_tokens # Missing
            anthropic == u.input_tokens # Missing /\ u.output_tokens # Missing
        IN  /\ call.st = "returned"
            /\ openai =>
                  call.tokens = Tokens(u.prompt_tokens.v, u.completion_tokens.v)
            /\ (~openai /\ anthropic) =>
                  call.tokens = Tokens(u.input_tokens.v, u.output_tokens.v)
            /\ call.tokens = extract_tokens(C20_Twin(call.response))

\* C21: a record the track wrapper has prepared or written holds as model the
\* model name of the result if the result carries one, else the declared
\* model; as provider the provider given to the decorator if one was given,
\* else the provider detected from that effective model; and as cost the
\* cost of its tokens at the price of the effective model.
C21_EffectiveModelAndProvider ==
    \A t \in Threads :
        (th[t].form = "track" /\ th[t].row # NoRow) =>
            LET f == th[t]
                effective == IF f.resp.shape # "none" /\ f.resp.model \notin {NULL, ""}
                             THEN f.resp.model ELSE f.model
            IN  /\ f.row.model = effective
                /\ f.row.provider = IF f.provider # NULL THEN f.provider
                                    ELSE detect_provider(effective)
                /\ f.row.cost_usd = calculate_cost(effective, f.row.input_tokens,
                                                   f.row.output_tokens)
                /\ (Done(t) /\ f.wrote = 1) => f.row \in calls

\* a wrapper declared for claude-sonnet-4 has logged a result that names
\* gpt-4o-mini: the record is an openai record at the price of gpt-4o-mini
C21_Witness ==
    \E t \in Threads :
        /\ Done(t) /\ th[t].form = "track" /\ th[t].wrote = 1
        /\ th[t].model = "claude-sonnet-4" /\ th[t].provider = NULL
        /\ th[t].resp.model = "gpt-4o-mini"
        /\ th[t].row \in calls
        /\ th[t].row.model = "gpt-4o-mini"
        /\ th[t].row.provider = "openai"
        /\ detect_provider(th[t].model) = "anthropic"
        /\ th[t].row.cost_usd = 100 * 6 + 50 * 24
        /\ calculate_cost(th[t].model, 100, 50) # th[t].row.cost_usd

\* C22: every record in the store holds as cost_usd the cost calculate_cost
\* gives for its model and its token counts, whichever path appended it: the
\* track wrapper, a spending scope or a direct call of log_call.
C22_StoredCostIsComputedCost ==
    \A r \in calls :
        r.cost_usd = calculate_cost(r.model, r.input_tokens, r.output_tokens)

\* C23: records are immutable and the store is append-only except for clear.
\* In every step a record whose id is still in the store is there with the
\* timestamp and the field values it had; a record that leaves the store was
\* marked by a clear that commits in that step; a record that enters it is the
\* row of an append that commits in that step, under an id no record holds;
\* and total, aggregate and export leave the store as it is.
C23_RecordsImmutable ==
    [][/\ \A r \in calls, s \in calls' : r.id = s.id => r = s
       /\ \A r \in calls \ calls' :
             \E t \in Threads :
                /\ th[t].form = "clear" /\ th[t].pc = "commit_clear"
                /\ th'[t].pc = "done" /\ r \in th[t].del
       /\ \A s \in calls' \ calls :
             \E t \in Threads :
                /\ th[t].pc = "commit" /\ th'[t].pc = "done"
                /\ s = th[t].row /\ th'[t].wrote = 1
       /\ (th'[Cli] # th[Cli]) => calls' = calls]_vars

\* a record has stayed as it was inserted while the clock advanced, a second
\* record was appended, an export read both and a clear(7) that marks
\* neither is about to commit
C23_Witness ==
    /\ \E r, s \in calls : r.id = 1 /\ s.id = 2 /\ r.at < s.at
    /\ Done(Cli) /\ th[Cli].form = "export" /\ Len(th[Cli].rows) = 2
    /\ \E t \in Threads : th[t].pc = "commit_clear" /\ th[t].del = {}

\* the sum of a column over the rows of a result
RECURSIVE C24_Sum(_, _)
C24_Sum(rows, field) ==
    IF rows = << >> THEN 0
    ELSE rows[1][field] + C24_Sum(Tail(rows), field)

\* C24: each grouping partitions the records of the window.  The rows an
\* aggregate by file, function, model or label has returned add up, in
\* calls, input_tokens, output_tokens and cost_usd, to what get_total
\* returns for the same window at the same instant, and every record of the
\* window falls into the group of exactly one row.
C24_GroupingsPartitionWindow ==
    (Done(Cli) /\ th[Cli].form = "aggregate") =>
        LET rows == th[Cli].rows
            g == th[Cli].group
            total == get_total(calls, now, th[Cli].days)
            W == Window(calls, cutoff(now, th[Cli].days))
        IN  /\ C24_Sum(rows, "calls") = total.total_calls
            /\ C24_Sum(rows, "input_tokens") = total.total_input
            /\ C24_Sum(rows, "output_tokens") = total.total_output
            /\ C24_Sum(rows, "cost_usd") = total.total_cost
            /\ Len(rows) = Cardinality({GroupKey(r, g) : r \in W})
            /\ \A r \in W :
                  \E i \in 1..Len(rows) :
                     /\ rows[i].key = RenderKey(GroupKey(r, g), g)
                     /\ rows[i].calls =
                           Cardinality({s \in W : GroupKey(s, g) = GroupKey(r, g)})

\* an aggregate by file over two records, one of them without a file, has
\* returned two rows of one call each, which add up to the total of the window
C24_Witness ==
    /\ Done(Cli) /\ th[Cli].form = "aggregate" /\ th[Cli].group = "file"
    /\ Len(th[Cli].rows) = 2
    /\ \E r \in calls : r.file = NULL
    /\ th[Cli].rows[1].calls = 1 /\ th[Cli].rows[2].calls = 1
    /\ th[Cli].rows[1].cost_usd > th[Cli].rows[2].cost_usd
    /\ get_total(calls, now, th[Cli].days).total_calls = 2
    /\ get_total(calls, now, th[Cli].days).total_cost =
          th[Cli].rows[1].cost_usd + th[Cli].rows[2].cost_usd

\* C25: the rows an aggregate by file, by label or by function has returned
\* carry pairwise distinct keys: the records without a file (function, label)
\* and the records whose file (function, label) is the text "(unknown)"
\* ("(unlabeled)") itself are summed into one row.
C25_RowKeysDistinct ==
    (Done(Cli) /\ th[Cli].form = "aggregate"
               /\ th[Cli].group \in {"file", "label", "function"}) =>
        \A i, j \in 1..Len(th[Cli].rows) :
            i # j => th[Cli].rows[i].key # th[Cli].rows[j].key

=============================================================================
